---- MODULE Spec2Model ----
(***************************************************************************)
(* AlarmClock<Duration> (src/src/AlarmClock.h): a resettable countdown     *)
(* timer.  One background thread runs AlarmClockInterruptableThread; any   *)
(* caller thread may call Reset(); the owner runs the destructor.          *)
(*                                                                         *)
(* Every action below is one atomic access of the code to shared state     *)
(* (an atomic load/store/increment, a mutex operation, a condition-        *)
(* variable operation), so that every interleaving of the threads the      *)
(* C++ memory model allows for these sequentially consistent atomics is a  *)
(* behaviour of the model.                                                 *)
(***************************************************************************)
EXTENDS Integers, Naturals, FiniteSets, Sequences, TLC

\* ---------------------------------------------------------------- bounds
\* largest kSleepTimeUsCount the constructor is given
MaxSleepUs == 2
\* number of Reset() calls made over the life of the object
MaxResets == 2
\* number of spurious wake-ups of condition_variable::wait
MaxSpurious == 1

\* ------------------------------------------------------------- constants
\* threads that call Reset()
Callers == {"c1", "c2"}
\* the sleep functions handed to the constructor: the default (nullptr,
\* bound to SleepUs), one that returns 0 at once, one that always returns 1
SleepFunctions == {"SleepUs", "Completed", "Interrupted"}

VARIABLES
    mExpired,            \* atomic<unsigned int>; stays far below 2^32 (see TypeOK)
    mSleptTime,          \* atomic<unsigned int>
    mExit,               \* atomic<bool>
    mReset,              \* atomic<bool>
    kSleepTimeUsCount,   \* const unsigned int
    mSleepFunction,      \* function<unsigned int (unsigned int)>
    mMutex,              \* owner of mMutex: "none", "worker" or a caller
    mCondition,          \* threads blocked in mCondition.wait
    joinable,            \* mTimerThread.joinable()
    workerPc,            \* position of mTimerThread
    retVal,              \* local of AlarmClockInterruptableThread
    i,                   \* local of SleepUs
    callerPc,            \* position of each caller inside Reset()
    dtorPc,              \* position of the owner inside ~AlarmClock()
    resetCalls,          \* history: Reset() calls started
    spuriousCount,       \* history: spurious wake-ups taken
    sinceReset,          \* history: progress since the last Reset() returned
    coalesced,           \* history: Reset() calls that ran one after another, from
                         \*   the first lock to the last return with no worker step,
                         \*   since line 94 last ran
    snapshot,            \* history: shared flags when the previous Reset() returned
    stepped,             \* history: the worker took a step since those calls began
    consumed,            \* history: the value of coalesced that line 94 last consumed
    restartCalls,        \* history: mSleepFunction calls since that run of line 94
    wokenBy,             \* history: what ended the worker's last wait
    slept,               \* history: sleep_for calls of the current SleepUs call
    callsAfterExit,      \* history: mSleepFunction calls begun with mExit set
    Duration,            \* the template parameter: the unit of sleepDuration
    kSleepTime,          \* const int
    kSleepTimeMsCount,   \* const unsigned int
    result               \* what the last accessor call returned

shared == <<mExpired, mSleptTime, mExit, mReset>>
config == <<Duration, kSleepTime, kSleepTimeMsCount, kSleepTimeUsCount, mSleepFunction>>
sync == <<mMutex, mCondition, joinable>>
worker == <<workerPc, retVal, i>>
history == <<resetCalls, spuriousCount, sinceReset, coalesced, snapshot,
             stepped, consumed, restartCalls, wokenBy, slept, callsAfterExit>>
vars == <<shared, config, sync, worker, callerPc, dtorPc, history, result>>

flags == <<mReset, mExpired, mExit>>

\* -------------------------------------------------------------- durations
\* std::chrono units the class names (lines 18-20), in microseconds
Units == {"microseconds", "milliseconds", "seconds"}
UsPerMs == 1000
UsPerS == 1000000
UsPer(unit) ==
    CASE unit = "microseconds" -> 1
      [] unit = "milliseconds" -> UsPerMs
      [] unit = "seconds" -> UsPerS

\* lines 122-124: duration_cast<microseconds>(t).count(); the counts of the
\* model stay below 2^31, so the conversion to unsigned int keeps the value
ConvertToMicrosecondsCount(unit, t) == t * UsPer(unit)

\* lines 118-120: duration_cast<milliseconds>(t).count(), which truncates
ConvertToMillisecondsCount(unit, t) == (t * UsPer(unit)) \div UsPerMs

\* the constructor calls the model makes: the default sleep function with
\* every duration of 0..MaxSleepUs microseconds (SleepUs takes one step per
\* microsecond), and the two injected functions, which do not look at the
\* duration, with milliseconds and seconds
ConstructorCalls ==
    {<<"SleepUs", "microseconds", d>> : d \in 0..MaxSleepUs}
        \cup {<<"Completed", "milliseconds", MaxSleepUs>>,
              <<"Interrupted", "seconds", MaxSleepUs>>}

\* ------------------------------------------------------------ constructor
\* AlarmClock(sleepDuration, funcPtr): the state once the constructor has
\* returned; mTimerThread exists and is about to run its first iteration.
Init ==
    /\ mExpired = 0
    /\ mSleptTime = 0
    /\ mExit = FALSE
    /\ mReset = FALSE
    /\ \E call \in ConstructorCalls :
          /\ mSleepFunction = call[1]
          /\ Duration = call[2]
          /\ kSleepTime = call[3]
          /\ kSleepTimeMsCount = ConvertToMillisecondsCount(call[2], call[3])
          /\ kSleepTimeUsCount = ConvertToMicrosecondsCount(call[2], call[3])
    /\ mMutex = "none"
    /\ mCondition = {}
    /\ joinable = TRUE
    /\ workerPc = "call"
    /\ retVal = 0
    /\ i = 0
    /\ callerPc = [c \in Callers |-> "idle"]
    /\ dtorPc = "alive"
    /\ resetCalls = 0
    /\ spuriousCount = 0
    /\ sinceReset = "none"
    /\ coalesced = 0
    /\ snapshot = flags
    /\ stepped = FALSE
    /\ consumed = 0
    /\ restartCalls = 0
    /\ wokenBy = "none"
    /\ slept = 0
    /\ callsAfterExit = 0
    /\ result = [op |-> "none", val |-> 0]

\* what every step of mTimerThread does to the history variables that no
\* step of it sets otherwise
WorkerStepped ==
    /\ stepped' = TRUE
    /\ UNCHANGED <<resetCalls, snapshot, coalesced, wokenBy>>

\* the worker zeroes mExpired when it starts a countdown
WorkerCall_ClearsExpired ==
    /\ workerPc = "call"
    /\ \/ /\ mSleepFunction = "SleepUs"
          /\ i' = 1
          /\ workerPc' = "SleepUs_for"
          /\ UNCHANGED retVal
          /\ sinceReset' = IF sinceReset = "returned" THEN "started" ELSE sinceReset
       \/ /\ mSleepFunction = "Completed"
          /\ retVal' = 0
          /\ workerPc' = "ret"
          /\ UNCHANGED i
          /\ sinceReset' = IF sinceReset \in {"returned", "started"}
                           THEN "completed" ELSE sinceReset
       \/ /\ mSleepFunction = "Interrupted"
          /\ retVal' = 1
          /\ workerPc' = "ret"
          /\ UNCHANGED i
          /\ sinceReset' = IF sinceReset = "returned" THEN "started" ELSE sinceReset
    /\ restartCalls' = IF restartCalls < 2 THEN restartCalls + 1 ELSE restartCalls
    /\ WorkerStepped
    /\ mExpired' = 0
    /\ slept' = 0
    /\ callsAfterExit' = IF mExit /\ callsAfterExit < 2
                         THEN callsAfterExit + 1 ELSE callsAfterExit
    /\ UNCHANGED <<mSleptTime, mExit, mReset, config, result, sync, callerPc, dtorPc,
                   spuriousCount, consumed>>

\* ------------------------------------- AlarmClockInterruptableThread
\* line 75: retVal = mSleepFunction(kSleepTimeUsCount), the call
WorkerCall ==
    /\ workerPc = "call"
    /\ \/ /\ mSleepFunction = "SleepUs"
          /\ i' = 1
          /\ workerPc' = "SleepUs_for"
          /\ UNCHANGED retVal
          /\ sinceReset' = IF sinceReset = "returned" THEN "started" ELSE sinceReset
       \/ /\ mSleepFunction = "Completed"
          /\ retVal' = 0
          /\ workerPc' = "ret"
          /\ UNCHANGED i
          /\ sinceReset' = IF sinceReset \in {"returned", "started"}
                           THEN "completed" ELSE sinceReset
       \/ /\ mSleepFunction = "Interrupted"
          /\ retVal' = 1
          /\ workerPc' = "ret"
          /\ UNCHANGED i
          /\ sinceReset' = IF sinceReset = "returned" THEN "started" ELSE sinceReset
    /\ restartCalls' = IF restartCalls < 2 THEN restartCalls + 1 ELSE restartCalls
    /\ slept' = 0
    /\ callsAfterExit' = IF mExit /\ callsAfterExit < 2
                         THEN callsAfterExit + 1 ELSE callsAfterExit
    /\ WorkerStepped
    /\ UNCHANGED <<shared, config, result, sync, callerPc, dtorPc, spuriousCount, consumed>>

\* SleepUs whose final return reports an interruption
SleepUsFor_ReturnsOne ==
    /\ workerPc = "SleepUs_for"
    /\ IF i < kSleepTimeUsCount
       THEN /\ workerPc' = "SleepUs_check"
            /\ slept' = slept + 1
            /\ UNCHANGED <<retVal, sinceReset>>
       ELSE /\ workerPc' = "ret"
            /\ retVal' = 1
            /\ UNCHANGED <<sinceReset, slept>>
    /\ WorkerStepped
    /\ UNCHANGED <<shared, config, result, sync, i, callerPc, dtorPc,
                   spuriousCount, callsAfterExit, consumed, restartCalls>>

\* SleepUs that adds each microsecond slept to mSleptTime
SleepUsFor_CountsSleptTime ==
    /\ workerPc = "SleepUs_for"
    /\ IF i < kSleepTimeUsCount
       THEN /\ workerPc' = "SleepUs_check"
            /\ slept' = slept + 1
            /\ mSleptTime' = mSleptTime + 1
            /\ UNCHANGED <<retVal, sinceReset>>
       ELSE /\ workerPc' = "ret"
            /\ retVal' = 0
            /\ sinceReset' = IF sinceReset = "started" THEN "completed" ELSE sinceReset
            /\ UNCHANGED <<slept, mSleptTime>>
    /\ WorkerStepped
    /\ UNCHANGED <<mExpired, mExit, mReset, config, result, sync, i, callerPc, dtorPc,
                   spuriousCount, callsAfterExit, consumed, restartCalls>>

\* SleepUs line 109: the loop test; line 110: one sleep_for of 1 microsecond;
\* line 115: return 0 when the loop test fails
SleepUsFor ==
    /\ workerPc = "SleepUs_for"
    /\ IF i < kSleepTimeUsCount
       THEN /\ workerPc' = "SleepUs_check"
            /\ slept' = slept + 1
            /\ UNCHANGED <<retVal, sinceReset>>
       ELSE /\ workerPc' = "ret"
            /\ retVal' = 0
            /\ sinceReset' = IF sinceReset = "started" THEN "completed" ELSE sinceReset
            /\ UNCHANGED slept
    /\ WorkerStepped
    /\ UNCHANGED <<shared, config, result, sync, i, callerPc, dtorPc,
                   spuriousCount, callsAfterExit, consumed, restartCalls>>

\* SleepUs lines 111-113 and the i++ of line 109
SleepUsCheck ==
    /\ workerPc = "SleepUs_check"
    /\ IF mReset \/ mExit
       THEN /\ workerPc' = "ret"
            /\ retVal' = 1
            /\ UNCHANGED i
       ELSE /\ workerPc' = "SleepUs_for"
            /\ i' = i + 1
            /\ UNCHANGED retVal
    /\ WorkerStepped
    /\ UNCHANGED <<shared, config, result, sync, callerPc, dtorPc,
                   spuriousCount, slept, callsAfterExit, sinceReset, consumed, restartCalls>>

\* mExpired++ done for every return value
WorkerRet_CountsEveryReturn ==
    /\ workerPc = "ret"
    /\ IF retVal = 0
       THEN /\ mExpired' = mExpired + 1
            /\ workerPc' = "lock"
       ELSE /\ workerPc' = IF mExit THEN "done" ELSE "lock"
            /\ mExpired' = mExpired + 1
    /\ WorkerStepped
    /\ UNCHANGED <<mSleptTime, mExit, mReset, config, result, sync, retVal, i, callerPc,
                   dtorPc, spuriousCount, slept, callsAfterExit, sinceReset, consumed, restartCalls>>

\* mExpired.store(1) in place of mExpired++
WorkerRet_StoresOne ==
    /\ workerPc = "ret"
    /\ IF retVal = 0
       THEN /\ mExpired' = 1
            /\ workerPc' = "lock"
       ELSE /\ workerPc' = IF mExit THEN "done" ELSE "lock"
            /\ UNCHANGED mExpired
    /\ WorkerStepped
    /\ UNCHANGED <<mSleptTime, mExit, mReset, config, result, sync, retVal, i, callerPc,
                   dtorPc, spuriousCount, slept, callsAfterExit, sinceReset, consumed, restartCalls>>

\* lines 77-82: mExpired++ after a return of 0; otherwise break when mExit
WorkerRet ==
    /\ workerPc = "ret"
    /\ IF retVal = 0
       THEN /\ mExpired' = mExpired + 1
            /\ workerPc' = "lock"
       ELSE /\ workerPc' = IF mExit THEN "done" ELSE "lock"
            /\ UNCHANGED mExpired
    /\ WorkerStepped
    /\ UNCHANGED <<mSleptTime, mExit, mReset, config, result, sync, retVal, i, callerPc,
                   dtorPc, spuriousCount, slept, callsAfterExit, sinceReset, consumed, restartCalls>>

\* line 84: unique_lock<mutex> lck(mMutex)
WorkerLock ==
    /\ workerPc = "lock"
    /\ mMutex = "none"
    /\ mMutex' = "worker"
    /\ workerPc' = "check"
    /\ WorkerStepped
    /\ UNCHANGED <<shared, config, result, mCondition, joinable, retVal, i, callerPc,
                   dtorPc, spuriousCount, slept, callsAfterExit, sinceReset, consumed, restartCalls>>

\* the worker waits without looking at mReset
WorkerCheck_AlwaysWaits ==
    /\ workerPc = "check"
    /\ IF FALSE
       THEN /\ workerPc' = "clear"
            /\ UNCHANGED <<mMutex, mCondition>>
       ELSE /\ workerPc' = "wait"
            /\ mMutex' = "none"
            /\ mCondition' = mCondition \cup {"worker"}
    /\ stepped' = TRUE
    /\ wokenBy' = "none"
    /\ UNCHANGED <<resetCalls, snapshot, coalesced>>
    /\ UNCHANGED <<shared, config, result, joinable, retVal, i, callerPc, dtorPc,
                   spuriousCount, slept, callsAfterExit, sinceReset, consumed, restartCalls>>

\* a wait that blocks without releasing the mutex
WorkerCheck_WaitKeepsMutex ==
    /\ workerPc = "check"
    /\ IF mReset
       THEN /\ workerPc' = "clear"
            /\ UNCHANGED <<mMutex, mCondition>>
       ELSE /\ workerPc' = "wait"
            /\ UNCHANGED mMutex
            /\ mCondition' = mCondition \cup {"worker"}
    /\ stepped' = TRUE
    /\ wokenBy' = "none"
    /\ UNCHANGED <<resetCalls, snapshot, coalesced>>
    /\ UNCHANGED <<shared, config, result, joinable, retVal, i, callerPc, dtorPc,
                   spuriousCount, slept, callsAfterExit, sinceReset, consumed, restartCalls>>

\* line 86 with the test of mReset inverted
WorkerCheck_Inverted ==
    /\ workerPc = "check"
    /\ IF ~mReset
       THEN /\ workerPc' = "clear"
            /\ UNCHANGED <<mMutex, mCondition>>
       ELSE /\ workerPc' = "wait"
            /\ mMutex' = "none"
            /\ mCondition' = mCondition \cup {"worker"}
    /\ stepped' = TRUE
    /\ wokenBy' = "none"
    /\ UNCHANGED <<resetCalls, snapshot, coalesced>>
    /\ UNCHANGED <<shared, config, result, joinable, retVal, i, callerPc, dtorPc,
                   spuriousCount, slept, callsAfterExit, sinceReset, consumed, restartCalls>>

\* lines 86-93: if (!mReset) mCondition.wait(lck): the wait releases the
\* mutex and blocks the thread in one atomic step
WorkerCheck ==
    /\ workerPc = "check"
    /\ IF mReset
       THEN /\ workerPc' = "clear"
            /\ UNCHANGED <<mMutex, mCondition>>
       ELSE /\ workerPc' = "wait"
            /\ mMutex' = "none"
            /\ mCondition' = mCondition \cup {"worker"}
    /\ stepped' = TRUE
    /\ wokenBy' = "none"
    /\ UNCHANGED <<resetCalls, snapshot, coalesced>>
    /\ UNCHANGED <<shared, config, result, joinable, retVal, i, callerPc, dtorPc,
                   spuriousCount, slept, callsAfterExit, sinceReset, consumed, restartCalls>>

\* line 92: a notified wait returns once it has the mutex again
WorkerWake ==
    /\ workerPc = "wait"
    /\ "worker" \notin mCondition
    /\ mMutex = "none"
    /\ mMutex' = "worker"
    /\ workerPc' = "clear"
    /\ WorkerStepped
    /\ UNCHANGED <<shared, config, result, mCondition, joinable, retVal, i, callerPc,
                   dtorPc, spuriousCount, slept, callsAfterExit, sinceReset, consumed, restartCalls>>

\* line 92: condition_variable::wait(lck) takes no predicate and may
\* unblock without a notification
SpuriousWake ==
    /\ workerPc = "wait"
    /\ "worker" \in mCondition
    /\ spuriousCount < MaxSpurious
    /\ mCondition' = mCondition \ {"worker"}
    /\ spuriousCount' = spuriousCount + 1
    /\ consumed' = 0
    /\ stepped' = TRUE
    /\ wokenBy' = "spurious"
    /\ UNCHANGED <<shared, config, result, mMutex, joinable, worker, callerPc, dtorPc,
                   resetCalls, sinceReset, snapshot, coalesced, restartCalls,
                   slept, callsAfterExit>>

\* the worker loop without line 94
WorkerClear_Missing ==
    /\ workerPc = "clear"
    /\ UNCHANGED mReset
    /\ workerPc' = "unlock"
    /\ consumed' = IF coalesced > 0 THEN coalesced ELSE consumed
    /\ restartCalls' = IF coalesced > 0 THEN 0 ELSE restartCalls
    /\ coalesced' = 0
    /\ stepped' = TRUE
    /\ UNCHANGED <<mExpired, mSleptTime, mExit, config, result, sync, retVal, i, callerPc,
                   dtorPc, resetCalls, spuriousCount, slept, callsAfterExit, sinceReset, snapshot, wokenBy>>

\* line 94 storing false to mExit as well
WorkerClear_ClearsExit ==
    /\ workerPc = "clear"
    /\ mReset' = FALSE
    /\ workerPc' = "unlock"
    /\ consumed' = IF coalesced > 0 THEN coalesced ELSE consumed
    /\ restartCalls' = IF coalesced > 0 THEN 0 ELSE restartCalls
    /\ coalesced' = 0
    /\ stepped' = TRUE
    /\ mExit' = FALSE
    /\ UNCHANGED <<mExpired, mSleptTime, config, result, sync, retVal, i, callerPc,
                   dtorPc, resetCalls, spuriousCount, slept, callsAfterExit, sinceReset, snapshot, wokenBy>>

\* line 94: mReset.store(false)
WorkerClear ==
    /\ workerPc = "clear"
    /\ mReset' = FALSE
    /\ workerPc' = "unlock"
    /\ consumed' = IF coalesced > 0 THEN coalesced ELSE consumed
    /\ restartCalls' = IF coalesced > 0 THEN 0 ELSE restartCalls
    /\ coalesced' = 0
    /\ stepped' = TRUE
    /\ UNCHANGED <<mExpired, mSleptTime, mExit, config, result, sync, retVal, i, callerPc,
                   dtorPc, resetCalls, spuriousCount, slept, callsAfterExit, sinceReset, snapshot, wokenBy>>

\* line 95, the closing brace: lck goes out of scope and releases mMutex
WorkerUnlock ==
    /\ workerPc = "unlock"
    /\ mMutex' = "none"
    /\ workerPc' = "while"
    /\ WorkerStepped
    /\ UNCHANGED <<shared, config, result, mCondition, joinable, retVal, i, callerPc,
                   dtorPc, spuriousCount, slept, callsAfterExit, sinceReset, consumed, restartCalls>>

\* a loop that never tests mExit at line 95
WorkerWhile_IgnoresExit ==
    /\ workerPc = "while"
    /\ workerPc' = "call"
    /\ WorkerStepped
    /\ UNCHANGED <<shared, config, result, sync, retVal, i, callerPc, dtorPc,
                   spuriousCount, slept, callsAfterExit, sinceReset, consumed, restartCalls>>

\* line 95: while (!mExit)
WorkerWhile ==
    /\ workerPc = "while"
    /\ workerPc' = IF mExit THEN "done" ELSE "call"
    /\ WorkerStepped
    /\ UNCHANGED <<shared, config, result, sync, retVal, i, callerPc, dtorPc,
                   spuriousCount, slept, callsAfterExit, sinceReset, consumed, restartCalls>>

Worker ==
    \/ WorkerCall
    \/ SleepUsFor
    \/ SleepUsCheck
    \/ WorkerRet
    \/ WorkerLock
    \/ WorkerCheck
    \/ WorkerWake
    \/ WorkerClear
    \/ WorkerUnlock
    \/ WorkerWhile

\* ------------------------------------------------------------------ Reset
\* a caller thread enters Reset(); no member function is entered once the
\* destructor has begun
ResetBegin(c) ==
    /\ callerPc[c] = "idle"
    /\ dtorPc = "alive"
    /\ resetCalls < MaxResets
    /\ resetCalls' = resetCalls + 1
    /\ callerPc' = [callerPc EXCEPT ![c] = "lock"]
    /\ UNCHANGED <<shared, config, result, sync, worker, dtorPc, spuriousCount, slept, callsAfterExit, sinceReset,
                   coalesced, snapshot, stepped, consumed, restartCalls, wokenBy>>

\* line 46: unique_lock<mutex> lck(mMutex)
ResetLock(c) ==
    /\ callerPc[c] = "lock"
    /\ mMutex = "none"
    /\ mMutex' = c
    /\ callerPc' = [callerPc EXCEPT ![c] = "setReset"]
    /\ coalesced' = IF stepped THEN 0 ELSE coalesced
    /\ stepped' = FALSE
    /\ UNCHANGED <<shared, config, result, mCondition, joinable, worker, dtorPc, resetCalls,
                   spuriousCount, slept, callsAfterExit, sinceReset, snapshot, consumed, restartCalls,
                   wokenBy>>

\* Reset() without line 47
ResetSetReset_Missing(c) ==
    /\ callerPc[c] = "setReset"
    /\ UNCHANGED mReset
    /\ callerPc' = [callerPc EXCEPT ![c] = "setExpired"]
    /\ consumed' = 0
    /\ UNCHANGED <<mExpired, mSleptTime, mExit, config, result, sync, worker, dtorPc,
                   resetCalls, spuriousCount, slept, callsAfterExit, sinceReset, coalesced, snapshot,
                   stepped, restartCalls, wokenBy>>

\* line 47: mReset.store(true)
ResetSetReset(c) ==
    /\ callerPc[c] = "setReset"
    /\ mReset' = TRUE
    /\ callerPc' = [callerPc EXCEPT ![c] = "setExpired"]
    /\ consumed' = 0
    /\ UNCHANGED <<mExpired, mSleptTime, mExit, config, result, sync, worker, dtorPc,
                   resetCalls, spuriousCount, slept, callsAfterExit, sinceReset, coalesced, snapshot,
                   stepped, restartCalls, wokenBy>>

\* line 53: mExpired.store(0)
ResetSetExpired(c) ==
    /\ callerPc[c] = "setExpired"
    /\ mExpired' = 0
    /\ callerPc' = [callerPc EXCEPT ![c] = "notify"]
    /\ UNCHANGED <<mSleptTime, mExit, mReset, config, result, sync, worker, dtorPc, history>>

\* Reset() without line 54
ResetNotify_Missing(c) ==
    /\ callerPc[c] = "notify"
    /\ UNCHANGED mCondition
    /\ callerPc' = [callerPc EXCEPT ![c] = "unlock"]
    /\ UNCHANGED wokenBy
    /\ UNCHANGED <<shared, config, result, mMutex, joinable, worker, dtorPc, resetCalls,
                   spuriousCount, slept, callsAfterExit, sinceReset, coalesced, snapshot, stepped,
                   consumed, restartCalls>>

\* line 54: mCondition.notify_all()
ResetNotify(c) ==
    /\ callerPc[c] = "notify"
    /\ mCondition' = {}
    /\ callerPc' = [callerPc EXCEPT ![c] = "unlock"]
    /\ wokenBy' = IF "worker" \in mCondition THEN "notify" ELSE wokenBy
    /\ UNCHANGED <<shared, config, result, mMutex, joinable, worker, dtorPc, resetCalls,
                   spuriousCount, slept, callsAfterExit, sinceReset, coalesced, snapshot, stepped,
                   consumed, restartCalls>>

\* line 55: lck goes out of scope, Reset() returns
ResetReturn(c) ==
    /\ callerPc[c] = "unlock"
    /\ mMutex' = "none"
    /\ callerPc' = [callerPc EXCEPT ![c] = "idle"]
    /\ sinceReset' = "returned"
    /\ coalesced' = IF stepped THEN 0 ELSE coalesced + 1
    /\ snapshot' = flags
    /\ UNCHANGED <<shared, config, result, mCondition, joinable, worker, dtorPc,
                   resetCalls, spuriousCount, slept, callsAfterExit, stepped, consumed, restartCalls,
                   wokenBy>>

Reset(c) ==
    \/ ResetBegin(c)
    \/ ResetLock(c)
    \/ ResetSetReset(c)
    \/ ResetSetExpired(c)
    \/ ResetNotify(c)
    \/ ResetReturn(c)

\* ------------------------------------------------------------ ~AlarmClock
\* line 37: mExit.store(true).  The owner destroys the object when no
\* other thread is inside a member function.
DtorStoreExit ==
    /\ dtorPc = "alive"
    /\ \A c \in Callers : callerPc[c] = "idle"
    /\ mExit' = TRUE
    /\ dtorPc' = "stop"
    /\ UNCHANGED <<mExpired, mSleptTime, mReset, config, result, sync, worker, callerPc, history>>

\* StopBackgroundThread with the test of mExit inverted
StopBackgroundThread_NoJoin ==
    /\ dtorPc = "stop"
    /\ dtorPc' = IF joinable /\ ~mExit THEN "join" ELSE "destroyed"
    /\ UNCHANGED <<shared, config, result, sync, worker, callerPc, history>>

\* StopBackgroundThread line 103: if (mTimerThread.joinable() && mExit)
StopBackgroundThread ==
    /\ dtorPc = "stop"
    /\ dtorPc' = IF joinable /\ mExit THEN "join" ELSE "destroyed"
    /\ UNCHANGED <<shared, config, result, sync, worker, callerPc, history>>

\* StopBackgroundThread line 104: mTimerThread.join() returns once the
\* thread function has returned; line 39: the destructor returns
DtorJoin ==
    /\ dtorPc = "join"
    /\ workerPc = "done"
    /\ joinable' = FALSE
    /\ dtorPc' = "destroyed"
    /\ UNCHANGED <<shared, config, result, mMutex, mCondition, worker, callerPc, history>>

Dtor ==
    \/ DtorStoreExit
    \/ StopBackgroundThread
    \/ DtorJoin

\* Expired() that reads with exchange(0)
Expired_ClearsOnRead ==
    /\ dtorPc = "alive"
    /\ result' = [op |-> "Expired", val |-> (mExpired # 0)]
    /\ mExpired' = 0
    /\ UNCHANGED <<mSleptTime, mExit, mReset, config, sync, worker, callerPc, dtorPc,
                   history>>

\* -------------------------------------------------------------- accessors
\* Each accessor is one load by some thread; no member function is entered
\* once the destructor has begun.
\* lines 41-43: return mExpired.load(), converted to bool
Expired ==
    /\ dtorPc = "alive"
    /\ result' = [op |-> "Expired", val |-> (mExpired # 0)]
    /\ UNCHANGED <<shared, config, sync, worker, callerPc, dtorPc, history>>

\* lines 58-60: return mSleptTime.load()
SleptTime ==
    /\ dtorPc = "alive"
    /\ result' = [op |-> "SleptTime", val |-> mSleptTime]
    /\ UNCHANGED <<shared, config, sync, worker, callerPc, dtorPc, history>>

\* lines 62-64: return kSleepTimeUsCount
SleepTimeUs ==
    /\ dtorPc = "alive"
    /\ result' = [op |-> "SleepTimeUs", val |-> kSleepTimeUsCount]
    /\ UNCHANGED <<shared, config, sync, worker, callerPc, dtorPc, history>>

\* lines 66-68: return kSleepTimeMsCount
SleepTimeMs ==
    /\ dtorPc = "alive"
    /\ result' = [op |-> "SleepTimeMs", val |-> kSleepTimeMsCount]
    /\ UNCHANGED <<shared, config, sync, worker, callerPc, dtorPc, history>>

Accessor ==
    \/ Expired
    \/ SleptTime
    \/ SleepTimeUs
    \/ SleepTimeMs

\* ---------------------------------------------------------- specification
Next ==
    \/ Worker
    \/ SpuriousWake
    \/ \E c \in Callers : Reset(c)
    \/ Dtor

Spec == Init /\ [][Next]_vars

\* Scheduling: every thread that can take a step eventually takes one; a
\* thread blocked in mutex::lock is only promised the mutex if the mutex
\* stays free, the weakest assumption under which std::mutex is usable.
\* Nothing obliges a caller to call Reset(), the owner to destroy the object,
\* or a wait to wake spuriously.
Fairness ==
    /\ WF_vars(Worker)
    /\ \A c \in Callers :
          WF_vars(ResetLock(c) \/ ResetSetReset(c) \/ ResetSetExpired(c)
                  \/ ResetNotify(c) \/ ResetReturn(c))
    /\ WF_vars(StopBackgroundThread \/ DtorJoin)

FairSpec == Spec /\ Fairness

\* the same threads together with threads that call the accessors
NextObs ==
    \/ Next
    \/ Accessor

SpecObs == Init /\ [][NextObs]_vars

TypeOK ==
    /\ mExpired \in 0..(MaxSpurious + 2)
    /\ mSleptTime = 0
    /\ mExit \in BOOLEAN
    /\ mReset \in BOOLEAN
    /\ Duration \in Units
    /\ kSleepTime \in 0..MaxSleepUs
    /\ kSleepTimeUsCount \in 0..(MaxSleepUs * UsPerS)
    /\ kSleepTimeMsCount \in 0..(MaxSleepUs * UsPerMs)
    /\ mSleepFunction \in SleepFunctions
    /\ mMutex \in {"none", "worker"} \cup Callers
    /\ mCondition \subseteq {"worker"}
    /\ joinable \in BOOLEAN
    /\ workerPc \in {"call", "SleepUs_for", "SleepUs_check", "ret", "lock", "check",
                     "wait", "clear", "unlock", "while", "done"}
    /\ retVal \in {0, 1}
    /\ callerPc \in [Callers -> {"idle", "lock", "setReset", "setExpired",
                                 "notify", "unlock"}]
    /\ dtorPc \in {"alive", "stop", "join", "destroyed"}
    /\ result.op \in {"none", "Expired", "SleptTime", "SleepTimeUs", "SleepTimeMs"}
    /\ slept \in 0..MaxSleepUs
    /\ callsAfterExit \in 0..2

\* ----------------------------------------------------------------- claims
parked == workerPc = "wait" /\ "worker" \in mCondition
inReset(c) == callerPc[c] # "idle"
invoked == workerPc \in {"SleepUs_for", "ret"}

\* C1: teardown always completes; in particular no reachable state has the
\* destructor blocked in join while the worker is blocked on the condition
\* variable with no thread left that will notify it.
C1_NoTeardownDeadlock ==
    ~(dtorPc = "join" /\ parked /\ \A c \in Callers : ~inReset(c))

\* C2: with the default sleep function, as long as Reset() is never called and
\* the destructor is not started, Expired() eventually becomes true.
C2_ExpiresAfterCountdown ==
    (mSleepFunction = "SleepUs")
        => <>(mExpired # 0 \/ resetCalls > 0 \/ dtorPc # "alive")

C2_Witness ==
    /\ mSleepFunction = "SleepUs"
    /\ kSleepTimeUsCount > 1
    /\ resetCalls = 0
    /\ dtorPc = "alive"
    /\ mExpired = 1

\* C3: from the return of a Reset() until a sleep-function call that started
\* after that return has returned 0, Expired() is false.
C3_ResetClearsExpiry ==
    sinceReset \in {"returned", "started"} => mExpired = 0

\* C4: when the worker is blocked in the wait after a sleep-function call
\* that returned 0 and a Reset() has been called, the worker leaves the wait,
\* clears mReset and calls the sleep function again, unless the destructor
\* starts first.
C4_Parked == parked /\ retVal = 0 /\ dtorPc = "alive" /\ \E c \in Callers : inReset(c)

C4_ResetWakesParkedWorker ==
    /\ C4_Parked ~> ((workerPc = "unlock" /\ ~mReset) \/ dtorPc # "alive")
    /\ C4_Parked ~> (invoked \/ dtorPc # "alive")

C4_Witness ==
    /\ workerPc = "SleepUs_for"
    /\ retVal = 0
    /\ wokenBy = "notify"
    /\ ~mReset
    /\ dtorPc = "alive"

\* C5: the worker is never blocked in the wait with mReset set unless the
\* Reset() that set it still holds the mutex and has its notify_all to come;
\* and once a Reset() has returned the worker starts a new sleep-function
\* call, unless the destructor starts first.
C5_NoLostWakeup ==
    /\ [](parked /\ mReset
            => \E c \in Callers : callerPc[c] \in {"setExpired", "notify"})
    /\ (sinceReset = "returned") ~> (sinceReset # "returned" \/ dtorPc # "alive")

C5_Witness ==
    /\ mSleepFunction = "SleepUs"
    /\ kSleepTimeUsCount > 1
    /\ workerPc = "clear"
    /\ retVal = 0
    /\ wokenBy = "none"
    /\ mReset
    /\ sinceReset = "returned"

\* C6: every step other than line 53 of Reset() leaves mExpired at least as
\* large as it was.
C6_ExpiredMonotone ==
    [][(\E c \in Callers : callerPc[c] = "setExpired" /\ callerPc'[c] = "notify")
       \/ mExpired' >= mExpired]_vars

C6_Witness == mExpired >= 2

\* C7: the thread is joined only by the destructor and with mExit set, and
\* whenever the destructor has returned the worker has left its loop.
C7_NoDanglingWorker ==
    /\ ~joinable => (mExit /\ dtorPc = "destroyed")
    /\ dtorPc = "destroyed" => (workerPc = "done" /\ ~joinable)

C7_Witness == dtorPc = "destroyed" /\ workerPc = "done" /\ resetCalls > 0

\* C8: with a sleep function that always returns non-zero, mExpired is 0 in
\* every reachable state.
C8_InterruptedNeverExpires ==
    mSleepFunction = "Interrupted" => mExpired = 0

C8_Witness ==
    /\ mSleepFunction = "Interrupted"
    /\ resetCalls = MaxResets
    /\ consumed > 0
    /\ workerPc = "done"

\* C9: when Reset() calls run one after another with no worker step from the
\* first lock to the last return, each later call leaves mReset, mExpired and
\* mExit as the first left them; and after line 94 has consumed two or more
\* such calls the worker calls the sleep function once, not once per call, as
\* long as no further Reset() or wake-up occurs.
C9_ResetCoalesces ==
    /\ [][\A c \in Callers :
            (callerPc[c] = "unlock" /\ callerPc'[c] = "idle"
             /\ coalesced >= 1 /\ ~stepped) => flags' = snapshot]_vars
    /\ [](consumed >= 2 => (~mReset /\ restartCalls <= 1))

C9_Witness == consumed >= 2 /\ restartCalls = 1 /\ parked

\* C10: a Reset() that has been called returns; the worker owns the mutex
\* only between its lock and the end of the loop body, never while it sleeps,
\* is blocked in the wait, or has exited.
C10_ResetReturns ==
    /\ \A c \in Callers : inReset(c) ~> ~inReset(c)
    /\ [](workerPc \notin {"check", "clear", "unlock"} => mMutex # "worker")

C10_Witness ==
    \E c, d \in Callers :
        callerPc[c] = "unlock" /\ callerPc[d] = "lock" /\ workerPc = "lock"

\* C11: a call of Expired(), SleptTime(), SleepTimeUs() or SleepTimeMs()
\* changes nothing but the value it returns; the two counts never change and
\* the calls return the counts the constructor computed.
C11_AccessorsHaveNoEffect ==
    /\ [][result' # result
            => UNCHANGED <<shared, config, sync, worker, callerPc, dtorPc, history>>]_vars
    /\ [][UNCHANGED <<kSleepTimeUsCount, kSleepTimeMsCount>>]_vars
    /\ [](result.op = "SleepTimeUs"
            => result.val = ConvertToMicrosecondsCount(Duration, kSleepTime))
    /\ [](result.op = "SleepTimeMs"
            => result.val = ConvertToMillisecondsCount(Duration, kSleepTime))

C11_Witness ==
    /\ result.op = "SleepTimeMs"
    /\ result.val = MaxSleepUs
    /\ mExpired > 0
    /\ workerPc = "wait"

\* C12: a step of the worker adds exactly 1 to mExpired when it is the step
\* after a sleep-function return of 0 (lines 77-79) and leaves mExpired alone
\* otherwise; the sleep function that completes at once returns 0 in every
\* iteration, so mExpired grows by one per iteration.
C12_CountsCompletedSleeps ==
    /\ [][workerPc' # workerPc
            => mExpired' = mExpired + (IF workerPc = "ret" /\ retVal = 0 THEN 1 ELSE 0)]_vars
    /\ [](mSleepFunction = "Completed" /\ workerPc = "ret" => retVal = 0)
    /\ [](mSleepFunction = "Interrupted" /\ workerPc = "ret" => retVal # 0)

C12_Witness ==
    /\ mSleepFunction = "Completed"
    /\ mExpired >= 2
    /\ workerPc = "lock"

\* C13: the worker starts to wait only from its test of mReset, holding the
\* mutex, with mReset false; with mReset true that test leads to line 94 with
\* the mutex still held.  While the worker is between its lock and its unlock
\* no Reset() is between its lock and its unlock, and the wait releases the
\* mutex in the step in which the worker joins the waiters.
C13_WaitsOnlyWithoutReset ==
    /\ [][workerPc # "wait" /\ workerPc' = "wait"
            => (workerPc = "check" /\ mMutex = "worker" /\ ~mReset
                /\ mMutex' = "none" /\ "worker" \in mCondition')]_vars
    /\ [][workerPc = "check" /\ workerPc' # "check" /\ mReset
            => (workerPc' = "clear" /\ mMutex' = "worker"
                /\ "worker" \notin mCondition')]_vars
    /\ [](workerPc \in {"check", "clear", "unlock"}
            => (mMutex = "worker" /\ \A c \in Callers : callerPc[c] \in {"idle", "lock"}))

C13_Witness ==
    /\ workerPc = "clear"
    /\ wokenBy = "none"
    /\ mReset
    /\ retVal = 1
    /\ \E c \in Callers : callerPc[c] = "lock"

\* C14: the worker leaves the wait of line 92 only after a notification: a
\* parked worker never goes on to line 94 and a new countdown on its own.
C14_ReleasedOnlyByNotify ==
    [][workerPc = "wait" /\ workerPc' # "wait" => wokenBy = "notify"]_vars

\* C15: mExit is false until the destructor's store of line 37, which is the
\* only step that changes it, and no step sets it back to false.
C15_ExitMonotone ==
    /\ [][mExit => mExit']_vars
    /\ [][mExit' # mExit => (dtorPc = "alive" /\ dtorPc' = "stop")]_vars
    /\ [](mExit <=> dtorPc # "alive")

C15_Witness ==
    /\ mExit
    /\ workerPc = "unlock"
    /\ resetCalls > 0
    /\ result.op = "Expired"

\* C16: a call of SleepUs that returns 0 has made exactly kSleepTimeUsCount
\* sleep_for calls of one microsecond; a call that returns non-zero returns
\* from its check right after a sleep_for, with mReset or mExit set.
C16_SleepUsSleepsFullDuration ==
    /\ (mSleepFunction = "SleepUs" /\ workerPc = "ret" /\ retVal = 0)
          => slept = kSleepTimeUsCount
    /\ (mSleepFunction = "SleepUs" /\ workerPc = "ret" /\ retVal # 0)
          => (slept >= 1 /\ slept <= kSleepTimeUsCount /\ (mReset \/ mExit))

\* C17: with the default sleep function, whenever the worker is inside the
\* wait of line 92 and mReset is false, mExpired is not 0.
C17_ParkedMeansExpired ==
    (mSleepFunction = "SleepUs" /\ workerPc = "wait" /\ ~mReset) => mExpired # 0

C17_Witness ==
    /\ mSleepFunction = "SleepUs"
    /\ parked
    /\ ~mReset
    /\ mExpired # 0
    /\ consumed > 0

\* C18: the worker begins at most one sleep-function call with mExit set;
\* its test of line 95 with mExit set ends the loop; and after a non-zero
\* return with mExit set it leaves the loop at line 81 without touching the
\* mutex or mReset.
C18_AtMostOneCallAfterExit ==
    /\ [](callsAfterExit <= 1)
    /\ [][workerPc = "while" /\ workerPc' # "while" /\ mExit => workerPc' = "done"]_vars
    /\ [][workerPc = "ret" /\ workerPc' # "ret" /\ retVal # 0 /\ mExit
            => (workerPc' = "done" /\ UNCHANGED <<mMutex, mReset>>)]_vars

C18_Witness ==
    /\ callsAfterExit = 1
    /\ workerPc = "done"
    /\ retVal # 0
    /\ mReset

\* C19: no step writes mSleptTime after the constructor, so it is 0 in every
\* reachable state and SleptTime() returns 0.
C19_SleptTimeStaysZero ==
    /\ mSleptTime = 0
    /\ result.op = "SleptTime" => result.val = 0

C19_Witness ==
    /\ result.op = "SleptTime"
    /\ result.val = 0
    /\ mSleepFunction = "SleepUs"
    /\ slept >= 1
    /\ mExpired # 0

====
